---- MODULE Spec2Model ----
(***************************************************************************)
(* Resilience and escalation layer of the Business Product Launch          *)
(* Analyzer: the adaptive orchestrator of crew.py (strategy ladder,        *)
(* pipeline-level bounded execution, escalation waits) and the retrying    *)
(* LLM caller of agents.py (call-level bounded execution, retry loop,      *)
(* backoff).  Time is a discrete clock that jumps to the next event.       *)
(***************************************************************************)
EXTENDS Integers, Sequences, FiniteSets, TLC

(***************************************************************************)
(* Bounds of the model.                                                    *)
(***************************************************************************)
\* max_attempts of create_crewai_setup ranges over 0..MaxAttemptsCap
MaxAttemptsCap == 4

\* how long a crew.kickoff() that returns may take (seconds); the values
\* fall below, between and above the three strategy budgets
KickoffDurations == {100, 400, 700}

(***************************************************************************)
(* Failure messages.  A message is modelled by the set of indicator        *)
(* substrings its lower-cased text contains; `ind in error_str` is         *)
(* membership.                                                             *)
(***************************************************************************)
Contains(msg, ind) == ind \in msg

CrewMessages ==
    { {"overloaded"}, {"503"}, {"quota"}, {"rate limit"}, {"429"},
      {"429", "503"}, {} }

None == [name |-> "None", timeout |-> 0, tasks |-> "none"]

NoExc == [type |-> "none", msg |-> {}, origin |-> "none"]

\* result[0] = None
NoResult == [tasks |-> "none", run |-> 0]

NoWorker ==
    [state |-> "none", hangs |-> FALSE, finishAt |-> 0,
     result |-> NoResult, error |-> NoExc]

(***************************************************************************)
(* Agents and tasks                                                        *)
(***************************************************************************)
\* agents.py: the three module-level agents and the tools each one carries
agent_tools ==
    [a \in {"market_research_analyst", "technology_expert",
            "business_consultant"} |-> {"search_tool"}]

\* the full task list with the last task first
create_tasks_reversed ==
    << [name |-> "task3", agent |-> "business_consultant",
        context |-> {"task1", "task2"}, tools |-> {"search_tool"}],
       [name |-> "task1", agent |-> "market_research_analyst",
        context |-> {}, tools |-> {"search_tool"}],
       [name |-> "task2", agent |-> "technology_expert",
        context |-> {}, tools |-> {"search_tool"}] >>

\* tasks.py, create_tasks: the list it returns
create_tasks ==
    << [name |-> "task1", agent |-> "market_research_analyst",
        context |-> {}, tools |-> {"search_tool"}],
       [name |-> "task2", agent |-> "technology_expert",
        context |-> {}, tools |-> {"search_tool"}],
       [name |-> "task3", agent |-> "business_consultant",
        context |-> {"task1", "task2"}, tools |-> {"search_tool"}] >>

\* tasks.py, create_emergency_tasks: the list it returns
create_emergency_tasks ==
    << [name |-> "task1", agent |-> "market_research_analyst",
        context |-> {}, tools |-> {}],
       [name |-> "task2", agent |-> "technology_expert",
        context |-> {}, tools |-> {}],
       [name |-> "task3", agent |-> "business_consultant",
        context |-> {"task1", "task2"}, tools |-> {}] >>

\* create_crew_for_strategy: the tasks of the crew
create_crew_for_strategy(tasks) ==
    IF tasks = "emergency" THEN create_emergency_tasks ELSE create_tasks

(***************************************************************************)
(* AdaptiveCrewHandler                                                     *)
(***************************************************************************)
strategies ==
    << [name |-> "Full Analysis",      timeout |-> 600, tasks |-> "full"],
       [name |-> "Quick Analysis",     timeout |-> 300, tasks |-> "quick"],
       [name |-> "Emergency Analysis", timeout |-> 120, tasks |-> "emergency"] >>

\* the ladder read round and round
get_current_strategy_wrap(cs) == strategies[(cs % Len(strategies)) + 1]

\* get_current_strategy: Python indexes from 0
get_current_strategy(cs) ==
    IF cs >= Len(strategies) THEN None ELSE strategies[cs + 1]

next_strategy_stay(cs) == cs

next_strategy(cs) == cs + 1

(***************************************************************************)
(* create_crewai_setup: the loop and its except clauses                    *)
(***************************************************************************)
in_range_inclusive(a, m) == a <= m

\* for attempt in range(max_attempts)
in_range(a, m) == a < m

\* the test with the last attempt counted as having a successor
more_attempts_inclusive(a, m) == a < m

\* if attempt < max_attempts - 1
more_attempts(a, m) == a < m - 1

is_overloaded(msg) == Contains(msg, "overloaded") \/ Contains(msg, "503")

is_quota(msg) ==
    \E indicator \in {"quota", "rate limit", "429"} : Contains(msg, indicator)

overloaded_wait_zero_based(a) == a * 60

overloaded_wait(a) == (a + 1) * 60

quota_wait(a) == (a + 1) * 90

VARIABLES
    max_attempts,      \* parameter of create_crewai_setup
    attempt,           \* loop variable of create_crewai_setup
    current_strategy,  \* handler.current_strategy
    pc,                \* position of the main thread in create_crewai_setup
    now,               \* wall clock (seconds)
    deadline,          \* when future.result(timeout=...) gives up
    wakeAt,            \* when time.sleep(wait_time) returns
    worker,            \* the run_crew worker of the current executor
    exc,               \* exception being handled by create_crewai_setup
    outcome,           \* value returned by create_crewai_setup
    runs,              \* history: tasks id of every pipeline run started
    ends,              \* history: how every finished run ended
    lastFailure,       \* history: the last failed run's exception and number
    lastWait,          \* history: the last wait before a next run, and its cause
    steps              \* the task steps the current run has executed

orchVars ==
    << max_attempts, attempt, current_strategy, pc, now, deadline, wakeAt,
       worker, exc, outcome, runs, ends, lastFailure, lastWait, steps >>


NoOutcome == [kind |-> "none", value |-> NoResult, text |-> ""]

Completed(v) == [kind |-> "Completed", value |-> v, text |-> ""]

\* every string create_crewai_setup returns itself starts with the cross
\* mark that main() reads as failure
Exhausted(text) == [kind |-> "Exhausted", value |-> NoResult, text |-> text]

NoFailure == [type |-> "none", msg |-> {}, origin |-> "none", number |-> 0]

NoWait == [number |-> 0, type |-> "none", msg |-> {}, seconds |-> 0]

OrchStart ==
    /\ attempt = 0
    /\ current_strategy = 0
    /\ pc = "loop"
    /\ now = 0
    /\ deadline = 0
    /\ wakeAt = 0
    /\ worker = NoWorker
    /\ exc = NoExc
    /\ outcome = NoOutcome
    /\ runs = << >>
    /\ ends = << >>
    /\ lastFailure = NoFailure
    /\ lastWait = NoWait
    /\ steps = << >>

\* what crew.kickoff() may do: return a value, raise, or never return
KickoffErrors ==
    [type : {"Exception"}, msg : CrewMessages, origin : {"worker"}]
        \cup { [type |-> "TimeoutError", msg |-> {}, origin |-> "worker"] }

\* line 163: the loop ran out
LoopEnds ==
    /\ pc = "loop"
    /\ ~ in_range(attempt, max_attempts)
    /\ pc' = "done"
    /\ outcome' = Exhausted("could not be completed after all attempts")
    /\ UNCHANGED << max_attempts, attempt, current_strategy, now, deadline,
                    wakeAt, worker, exc, runs, ends, lastFailure, lastWait, steps >>

\* lines 100-102
AllStrategiesExhausted ==
    /\ pc = "loop"
    /\ in_range(attempt, max_attempts)
    /\ get_current_strategy(current_strategy) = None
    /\ pc' = "done"
    /\ outcome' = Exhausted("All strategies exhausted")
    /\ UNCHANGED << max_attempts, attempt, current_strategy, now, deadline,
                    wakeAt, worker, exc, runs, ends, lastFailure, lastWait, steps >>

\* lines 100-115 and 70-82: build the crew, submit run_crew, wait on the future
StartRun ==
    /\ pc = "loop"
    /\ in_range(attempt, max_attempts)
    /\ get_current_strategy(current_strategy) # None
    /\ LET strategy == get_current_strategy(current_strategy)
           value == [tasks |-> strategy.tasks, run |-> Len(runs) + 1]
       IN /\ runs' = Append(runs, strategy.tasks)
          /\ deadline' = now + strategy.timeout
          /\ \/ \E d \in KickoffDurations :
                  worker' = [state |-> "running", hangs |-> FALSE,
                             finishAt |-> now + d,
                             result |-> value, error |-> NoExc]
             \/ \E d \in KickoffDurations, e \in KickoffErrors :
                  worker' = [state |-> "running", hangs |-> FALSE,
                             finishAt |-> now + d,
                             result |-> NoResult, error |-> e]
             \/ worker' = [state |-> "running", hangs |-> TRUE,
                           finishAt |-> 0,
                           result |-> NoResult, error |-> NoExc]
    /\ pc' = "future_result"
    /\ steps' = << >>
    /\ UNCHANGED << max_attempts, attempt, current_strategy, now, wakeAt,
                    exc, outcome, ends, lastFailure, lastWait >>

\* the tasks of the crew that is running
CrewTasks == create_crew_for_strategy(runs[Len(runs)])

\* the tasks this run has completed
TasksDone == { steps[i].task : i \in 1..Len(steps) }

\* crew.kickoff() with Process.sequential executes the next task of the
\* list: its agent works with the outputs of the tasks of its context that
\* exist, and with the tools the task and the agent carry.  A run that
\* raises or never returns stops within a task.
TaskRuns ==
    /\ worker.state = "running"
    /\ Len(steps) < Len(CrewTasks)
    /\ (worker.hangs \/ worker.error # NoExc)
           => Len(steps) < Len(CrewTasks) - 1
    /\ LET t == CrewTasks[Len(steps) + 1]
       IN steps' = Append(steps,
                     [task |-> t.name,
                      needs |-> t.context,
                      had |-> TasksDone,
                      context |-> t.context \cap TasksDone,
                      tools |-> t.tools,
                      agent_tools |-> agent_tools[t.agent]])
    /\ UNCHANGED << max_attempts, attempt, current_strategy, pc, now,
                    deadline, wakeAt, worker, exc, outcome, runs, ends,
                    lastFailure, lastWait >>

\* run_crew returns (lines 73-77); the clock reaches its finishing time
WorkerFinishes ==
    /\ worker.state = "running"
    /\ ~ worker.hangs
    /\ worker.error = NoExc => Len(steps) = Len(CrewTasks)
    /\ pc = "future_result" => worker.finishAt <= deadline
    /\ worker' = [worker EXCEPT !.state = "finished"]
    /\ now' = IF worker.finishAt > now THEN worker.finishAt ELSE now
    /\ UNCHANGED << max_attempts, attempt, current_strategy, pc, deadline,
                    wakeAt, exc, outcome, runs, ends, lastFailure, lastWait, steps >>

\* lines 83-85
WrapperOutcomeNone(w) ==
    IF w.error # NoExc
    THEN [raise |-> TRUE, exc |-> w.error, value |-> NoResult]
    ELSE [raise |-> FALSE, exc |-> NoExc, value |-> NoResult]

WrapperOutcome(w) ==
    IF w.error # NoExc
    THEN [raise |-> TRUE, exc |-> w.error, value |-> NoResult]
    ELSE [raise |-> FALSE, exc |-> NoExc, value |-> w.result]

\* lines 82-85, then the with block's exit: the worker has finished, so
\* shutdown(wait=True) returns at once
FutureResultReturns ==
    /\ pc = "future_result"
    /\ worker.state = "finished"
    /\ LET o == WrapperOutcome(worker)
       IN IF o.raise
          THEN /\ pc' = "except"
               /\ exc' = o.exc
               /\ UNCHANGED << outcome, ends >>
          ELSE /\ pc' = "done"
               /\ outcome' = Completed(o.value)
               /\ ends' = Append(ends, "ok")
               /\ exc' = NoExc
    /\ worker' = NoWorker
    /\ UNCHANGED << max_attempts, attempt, current_strategy, now, deadline,
                    wakeAt, runs, lastFailure, lastWait, steps >>

\* lines 82, 86-87: future.result gives up at the deadline and TimeoutError
\* is raised inside the with block, whose exit calls shutdown(wait=True)
FutureResultTimesOut ==
    /\ pc = "future_result"
    /\ worker.state = "running"
    /\ worker.hangs \/ worker.finishAt >= deadline
    /\ now' = deadline
    /\ pc' = "executor_exit"
    /\ UNCHANGED << max_attempts, attempt, current_strategy, deadline, wakeAt,
                    worker, exc, outcome, runs, ends, lastFailure, lastWait, steps >>

\* the exit of the with block without the join
ExecutorExitNoWait ==
    /\ pc = "executor_exit"
    /\ pc' = "except"
    /\ exc' = [type |-> "TimeoutError", msg |-> {}, origin |-> "deadline"]
    /\ UNCHANGED << max_attempts, attempt, current_strategy, now, deadline,
                    wakeAt, worker, outcome, runs, ends, lastFailure,
                    lastWait, steps >>

\* line 79: ThreadPoolExecutor.__exit__ joins the worker before the
\* TimeoutError leaves execute_with_timeout
ExecutorExit ==
    /\ pc = "executor_exit"
    /\ worker.state = "finished"
    /\ pc' = "except"
    /\ exc' = [type |-> "TimeoutError", msg |-> {}, origin |-> "deadline"]
    /\ worker' = NoWorker
    /\ UNCHANGED << max_attempts, attempt, current_strategy, now, deadline,
                    wakeAt, outcome, runs, ends, lastFailure, lastWait, steps >>

Failure(e) ==
    [type |-> e.type, msg |-> e.msg, origin |-> e.origin, number |-> Len(runs)]

\* the wait between the failed run number Len(runs) and the next run
Wait(e, seconds) ==
    [number |-> Len(runs), type |-> e.type, msg |-> e.msg,
     seconds |-> seconds]

\* lines 121-128
ExceptTimeoutError ==
    /\ pc = "except"
    /\ exc.type = "TimeoutError"
    /\ ends' = Append(ends, "timeout")
    /\ lastFailure' = Failure(exc)
    /\ exc' = NoExc
    /\ IF more_attempts(attempt, max_attempts)
       THEN /\ current_strategy' = next_strategy(current_strategy)
            /\ attempt' = attempt + 1
            /\ lastWait' = Wait(exc, 0)
            /\ pc' = "loop"
            /\ UNCHANGED outcome
       ELSE /\ pc' = "done"
            /\ outcome' = Exhausted("All strategies timed out")
            /\ UNCHANGED << current_strategy, attempt, lastWait >>
    /\ UNCHANGED << max_attempts, now, deadline, wakeAt, worker, runs, steps >>

\* lines 130-142
ExceptOverloaded ==
    /\ pc = "except"
    /\ exc.type = "Exception"
    /\ is_overloaded(exc.msg)
    /\ ends' = Append(ends, "error")
    /\ lastFailure' = Failure(exc)
    /\ exc' = NoExc
    /\ IF more_attempts(attempt, max_attempts)
       THEN /\ lastWait' = Wait(exc, overloaded_wait(attempt))
            /\ wakeAt' = now + overloaded_wait(attempt)
            /\ pc' = "sleep"
            /\ UNCHANGED outcome
       ELSE /\ pc' = "done"
            /\ outcome' = Exhausted("Service is overloaded and all retry attempts failed")
            /\ UNCHANGED << lastWait, wakeAt >>
    /\ UNCHANGED << max_attempts, attempt, current_strategy, now, deadline,
                    worker, runs, steps >>

\* lines 144-152
ExceptQuota ==
    /\ pc = "except"
    /\ exc.type = "Exception"
    /\ ~ is_overloaded(exc.msg)
    /\ is_quota(exc.msg)
    /\ ends' = Append(ends, "error")
    /\ lastFailure' = Failure(exc)
    /\ exc' = NoExc
    /\ IF more_attempts(attempt, max_attempts)
       THEN /\ lastWait' = Wait(exc, quota_wait(attempt))
            /\ wakeAt' = now + quota_wait(attempt)
            /\ pc' = "sleep"
            /\ UNCHANGED outcome
       ELSE /\ pc' = "done"
            /\ outcome' = Exhausted("API quota exhausted")
            /\ UNCHANGED << lastWait, wakeAt >>
    /\ UNCHANGED << max_attempts, attempt, current_strategy, now, deadline,
                    worker, runs, steps >>

\* lines 154-161
ExceptUnexpected ==
    /\ pc = "except"
    /\ exc.type = "Exception"
    /\ ~ is_overloaded(exc.msg)
    /\ ~ is_quota(exc.msg)
    /\ ends' = Append(ends, "error")
    /\ lastFailure' = Failure(exc)
    /\ exc' = NoExc
    /\ IF more_attempts(attempt, max_attempts)
       THEN /\ current_strategy' = next_strategy(current_strategy)
            /\ attempt' = attempt + 1
            /\ lastWait' = Wait(exc, 0)
            /\ pc' = "loop"
            /\ UNCHANGED outcome
       ELSE /\ pc' = "done"
            /\ outcome' = Exhausted("Analysis failed with error")
            /\ UNCHANGED << current_strategy, attempt, lastWait >>
    /\ UNCHANGED << max_attempts, now, deadline, wakeAt, worker, runs, steps >>

\* lines 139-140 and 149-150: time.sleep returns, continue
SleepReturns ==
    /\ pc = "sleep"
    /\ now' = wakeAt
    /\ attempt' = attempt + 1
    /\ pc' = "loop"
    /\ UNCHANGED << max_attempts, current_strategy, deadline, wakeAt, worker,
                    exc, outcome, runs, ends, lastFailure, lastWait, steps >>

OrchNext ==
    \/ LoopEnds
    \/ AllStrategiesExhausted
    \/ StartRun
    \/ TaskRuns
    \/ WorkerFinishes
    \/ FutureResultReturns
    \/ FutureResultTimesOut
    \/ ExecutorExit
    \/ ExceptTimeoutError
    \/ ExceptOverloaded
    \/ ExceptQuota
    \/ ExceptUnexpected
    \/ SleepReturns

(***************************************************************************)
(* RobustGeminiLLM: the retrying caller of agents.py                       *)
(***************************************************************************)
\* max_retries ranges over 0..MaxRetries, the configured value and a long one
MaxRetries == 1

\* a call is followed for this many seconds
Horizon == 240

\* random.uniform(0.1, 0.3), in percent: its two ends
JitterPercents == {10, 30}

\* how long one invocation of the remote backend that returns may take
BackendDurations == {0, 200}

\* messages the remote backend fails with; the empty one matches no indicator
BackendMessages == { {"overloaded"}, {"429"}, {"429", "503"}, {} }

\* create_llm_with_robust_handling, model_configs[0]
ConfiguredLLM == [max_retries |-> 5, base_delay |-> 10, timeout |-> 180]

\* base_delay is any positive integer: a small one and the configured one
BaseDelays == {1, 10}

\* a retry budget whose attempt count, max_retries + 1, is written 503
LongLLM == [max_retries |-> 502, base_delay |-> 10, timeout |-> 180]

LLMConfigs ==
    { ConfiguredLLM, LongLLM } \cup
    [max_retries : 0..MaxRetries, base_delay : BaseDelays, timeout : {180}]

Pow2(k) == IF k <= 0 THEN 1 ELSE 2 ^ k

Max(a, b) == IF a >= b THEN a ELSE b

\* the backoff without the exponent
_calculate_backoff_delay_flat(base_delay, a, j) ==
    (base_delay * 100 + j * base_delay) \div 100

\* int(delay + jitter) with jitter = (j/100) * delay
_calculate_backoff_delay(base_delay, a, j) ==
    LET delay == base_delay * Pow2(a)
    IN (delay * 100 + j * delay) \div 100

retryable_indicators ==
    { "503", "overloaded", "service unavailable", "timeout",
      "quota", "rate limit", "429", "too many requests",
      "resource exhausted", "limit exceeded", "rate_limit_exceeded",
      "temporarily unavailable", "server error", "internal error" }

_is_retryable_error(msg) ==
    \E indicator \in retryable_indicators : Contains(msg, indicator)

\* whether the decimal text of n contains the three digits p
HasDigits(n, p) == \E k \in 0..6 : (n \div (10 ^ k)) % 1000 = p

\* the indicators that the decimal text of n contains
NumberText(n) ==
    { ind \in {"503", "429"} :
        HasDigits(n, IF ind = "503" THEN 503 ELSE 429) }

\* indicators in "Operation timed out after {timeout} seconds": the words
\* hold none ("timed out" is not "timeout"), the number may
TimeoutText(timeout) == NumberText(timeout)

NoError ==
    [type |-> "none", msg |-> {}, origin |-> "none", made |-> 0, said |-> 0]

\* line 42
TimeoutError(timeout) ==
    [type |-> "TimeoutError", msg |-> TimeoutText(timeout),
     origin |-> "deadline", made |-> 0, said |-> 0]

\* lines 136-138 and 170-172: the text names max_retries + 1 attempts and
\* repeats the last error's text
LoopFailure(last_error, a, max_retries) ==
    [type |-> "Exception",
     msg |-> last_error.msg \cup NumberText(max_retries + 1),
     origin |-> "loop", made |-> a + 1, said |-> max_retries + 1]

\* the except clause with the floor of lines 122-123 left out
RetryDecisionNoFloor(cfg, a, msg, j) ==
    IF _is_retryable_error(msg) /\ a < cfg.max_retries
    THEN [retry |-> TRUE,
          computed |-> _calculate_backoff_delay(cfg.base_delay, a, j),
          delay |-> _calculate_backoff_delay(cfg.base_delay, a, j)]
    ELSE [retry |-> FALSE, computed |-> 0, delay |-> 0]

\* lines 118-126 and 156-163: what the except clause of either loop decides;
\* computed is the value of _calculate_backoff_delay, delay the time slept
RetryDecision(cfg, a, msg, j) ==
    IF _is_retryable_error(msg) /\ a < cfg.max_retries
    THEN [retry |-> TRUE,
          computed |-> _calculate_backoff_delay(cfg.base_delay, a, j),
          delay |-> IF is_overloaded(msg)
                    THEN Max(_calculate_backoff_delay(cfg.base_delay, a, j), 60)
                    ELSE _calculate_backoff_delay(cfg.base_delay, a, j)]
    ELSE [retry |-> FALSE, computed |-> 0, delay |-> 0]

\* the last time.sleep(delay) of a retry loop: after which attempt and
\* failure, with which jitter, the formula's value and the time slept
Slept(a, msg, j, d, before) ==
    [attempt |-> a, msg |-> msg, jitter |-> j,
     computed |-> d.computed, delay |-> d.delay,
     before |-> [attempt |-> before.attempt, msg |-> before.msg,
                 jitter |-> before.jitter, computed |-> before.computed,
                 delay |-> before.delay]]

\* no time.sleep yet in this call of the method
NoSleep ==
    [attempt |-> 0, msg |-> {}, jitter |-> 0, computed |-> 0, delay |-> 0,
     before |-> [attempt |-> 0, msg |-> {}, jitter |-> 0, computed |-> 0,
                 delay |-> 0]]

NoReply == [ok |-> FALSE, msg |-> {}, hangs |-> FALSE, dur |-> 0]

\* result[0] = None
NoValue == [call |-> 0, attempt |-> 0]

\* what one invocation of the remote backend may do
BackendReplies ==
    [ok : {TRUE}, msg : {{}}, hangs : {FALSE}, dur : BackendDurations]
        \cup [ok : {FALSE}, msg : BackendMessages, hangs : {FALSE},
              dur : BackendDurations]
        \cup { [ok |-> FALSE, msg |-> {}, hangs |-> TRUE, dur |-> 0] }

\* one call of a decorated method: the wrapper (call, deadline, expired,
\* gave) and its thread (worker, at, attempt, pending, result, exception).
\* expired: thread.join(timeout) gave up; gave: what the wrapper did at last
NoFrame ==
    [call |-> "none", deadline |-> 0, worker |-> "none", at |-> 0,
     attempt |-> 0, pending |-> NoReply, result |-> NoValue,
     exception |-> NoError, expired |-> FALSE, gave |-> "none",
     slept |-> NoSleep]

VARIABLES
    llm,          \* max_retries, base_delay, timeout of the RobustGeminiLLM
    entry,        \* the decorated method the client calls
    clock,        \* wall clock of the call (seconds)
    client,       \* the thread that calls the decorated method
    inv,          \* the bounded call of invoke and its worker's loop
    gen,          \* the bounded call of _generate and its worker's loop
    old,          \* an earlier call of _generate that timed out: its cells
                  \* and the worker it left running
    invocations,  \* history: invocations of the remote backend so far
    genCalls,     \* history: calls of _generate so far
    succeeded,    \* history: value of the invocation that succeeded
    afterSuccess, \* history: invocations started after one succeeded
    onlyRetryable,\* history: every reply so far was a retryable failure
    slowReply,    \* history: some invocation took the whole deadline
    fatal         \* history: a Fatal failure was raised; what followed it

callVars ==
    << llm, entry, clock, client, inv, gen, old, invocations, genCalls,
       succeeded, afterSuccess, onlyRetryable, slowReply, fatal >>

vars == << orchVars, callVars >>

NoClientOutcome == [kind |-> "none", value |-> NoValue, error |-> NoError]

CallStart ==
    /\ clock = 0
    /\ client = [pc |-> "start", outcome |-> NoClientOutcome, at |-> 0,
                 made |-> 0]
    /\ inv = NoFrame
    /\ gen = NoFrame
    /\ old = NoFrame
    /\ invocations = 0
    /\ genCalls = 0
    /\ succeeded = NoValue
    /\ afterSuccess = 0
    /\ onlyRetryable = TRUE
    /\ slowReply = FALSE
    /\ fatal = [seen |-> FALSE, invocations |-> 0, sleeps |-> 0]

Success(v) == [kind |-> "Success", value |-> v, error |-> NoError]

Raised(e) == [kind |-> "Failure", value |-> NoValue, error |-> e]

\* the times of the events that are due; a join whose thread has ended
\* returns at once, and is_alive() is read right after join has given up
PendingTimes ==
    (IF gen.worker = "sleep" \/ (gen.worker = "backend" /\ ~ gen.pending.hangs)
     THEN {gen.at} ELSE {})
    \cup (IF gen.call = "joined"
          THEN {IF gen.worker = "finished" THEN clock ELSE gen.deadline}
          ELSE {})
    \cup (IF gen.call = "expired" THEN {clock} ELSE {})
    \cup (IF old.worker = "sleep" \/ (old.worker = "backend" /\ ~ old.pending.hangs)
          THEN {old.at} ELSE {})
    \cup (IF inv.worker = "sleep" THEN {inv.at} ELSE {})
    \cup (IF inv.call = "joined"
          THEN {IF inv.worker = "finished" THEN clock ELSE inv.deadline}
          ELSE {})
    \cup (IF inv.call = "expired" THEN {clock} ELSE {})

IsNext(t) == t <= Horizon /\ \A u \in PendingTimes : t <= u

\* the call of _generate with a deadline of twice the timeout
StartGenerateCallLate(reply, t) ==
    [call |-> "joined", deadline |-> t + 2 * llm.timeout,
     worker |-> "backend", at |-> t + reply.dur, attempt |-> 0,
     pending |-> reply, result |-> NoValue, exception |-> NoError,
     expired |-> FALSE, gave |-> "none", slept |-> NoSleep]

\* lines 35-37 then 99-107: the wrapper starts the thread, whose loop makes
\* its first invocation of the remote backend
StartGenerateCall(reply, t) ==
    [call |-> "joined", deadline |-> t + llm.timeout, worker |-> "backend",
     at |-> t + reply.dur, attempt |-> 0, pending |-> reply,
     result |-> NoValue, exception |-> NoError, expired |-> FALSE,
     gave |-> "none", slept |-> NoSleep]

\* bookkeeping of one time.sleep(delay) of a retry loop
AfterFatalSleep ==
    IF fatal.seen THEN [fatal EXCEPT !.sleeps = fatal.sleeps + 1] ELSE fatal

\* bookkeeping of one invocation of the remote backend
Invoked(reply) ==
    /\ invocations' = invocations + 1
    /\ afterSuccess' = IF succeeded # NoValue THEN afterSuccess + 1
                       ELSE afterSuccess
    /\ onlyRetryable' = (onlyRetryable /\ ~ reply.ok /\ ~ reply.hangs
                         /\ _is_retryable_error(reply.msg))
    /\ slowReply' = (slowReply \/ reply.hangs \/ reply.dur >= llm.timeout)
    /\ fatal' = IF fatal.seen
                THEN [fatal EXCEPT !.invocations = fatal.invocations + 1]
                ELSE fatal

\* the client calls llm._generate(...) or llm.invoke(...); super().invoke
\* of line 148 runs the base chat model, which calls self._generate
ClientCalls ==
    /\ client.pc = "start"
    /\ client' = [client EXCEPT !.pc = "joined"]
    /\ \E reply \in BackendReplies :
         /\ gen' = StartGenerateCall(reply, clock)
         /\ Invoked(reply)
    /\ inv' = IF entry = "invoke"
              THEN [NoFrame EXCEPT !.call = "joined",
                                   !.deadline = clock + llm.timeout,
                                   !.worker = "super_invoke"]
              ELSE inv
    /\ genCalls' = genCalls + 1
    /\ UNCHANGED << llm, entry, clock, succeeded >>

\* lines 107-133: super()._generate returns or raises in the worker
BackendReturns ==
    /\ gen.worker = "backend"
    /\ ~ gen.pending.hangs
    /\ IsNext(gen.at)
    /\ clock' = Max(clock, gen.at)
    /\ IF gen.pending.ok
       THEN LET value == [call |-> genCalls, attempt |-> gen.attempt]
            IN /\ gen' = [gen EXCEPT !.worker = "finished", !.result = value]
               /\ succeeded' = value
               /\ UNCHANGED fatal
       ELSE /\ \E j \in JitterPercents :
                 LET d == RetryDecision(llm, gen.attempt, gen.pending.msg, j)
                 IN IF d.retry
                    THEN /\ gen' = [gen EXCEPT
                                      !.worker = "sleep",
                                      !.at = clock' + d.delay,
                                      !.slept = Slept(gen.attempt,
                                                      gen.pending.msg, j, d,
                                                      gen.slept)]
                         /\ fatal' = AfterFatalSleep
                    ELSE /\ gen' = [gen EXCEPT
                                      !.worker = "finished",
                                      !.exception =
                                          LoopFailure(gen.pending, gen.attempt,
                                                      llm.max_retries)]
                         /\ fatal' =
                              IF _is_retryable_error(gen.pending.msg)
                              THEN fatal
                              ELSE [fatal EXCEPT !.seen = TRUE]
            /\ UNCHANGED succeeded
    /\ UNCHANGED << llm, entry, client, inv, invocations, genCalls,
                    afterSuccess, onlyRetryable, slowReply >>

\* lines 129-130, then 99-107 with the next attempt
GenerateSleepReturns ==
    /\ gen.worker = "sleep"
    /\ IsNext(gen.at)
    /\ clock' = Max(clock, gen.at)
    /\ \E reply \in BackendReplies :
         /\ gen' = [gen EXCEPT !.worker = "backend",
                               !.attempt = gen.attempt + 1,
                               !.pending = reply,
                               !.at = clock' + reply.dur]
         /\ Invoked(reply)
    /\ UNCHANGED << llm, entry, client, inv, genCalls, succeeded >>

\* what the caller of the decorated _generate does with its outcome: the
\* client takes it; the loop of invoke (lines 148-168) returns, sleeps or
\* breaks
GenerateCallerReceives(o) ==
    IF entry = "_generate"
    THEN /\ client' = [pc |-> "done", outcome |-> o, at |-> clock',
                        made |-> invocations]
         /\ UNCHANGED << inv, fatal >>
    ELSE /\ UNCHANGED client
         /\ IF o.kind = "Success"
            THEN /\ inv' = [inv EXCEPT !.worker = "finished",
                                       !.result = o.value]
                 /\ UNCHANGED fatal
            ELSE \E j \in JitterPercents :
                   LET d == RetryDecision(llm, inv.attempt, o.error.msg, j)
                   IN IF d.retry
                      THEN /\ inv' = [inv EXCEPT
                                        !.worker = "sleep",
                                        !.at = clock' + d.delay,
                                        !.slept = Slept(inv.attempt,
                                                        o.error.msg, j, d,
                                                        inv.slept)]
                           /\ fatal' = AfterFatalSleep
                      ELSE /\ inv' = [inv EXCEPT
                                        !.worker = "finished",
                                        !.exception =
                                            LoopFailure(o.error, inv.attempt,
                                                        llm.max_retries)]
                           /\ UNCHANGED fatal

\* lines 40-47: what the wrapper does once join has returned
WrapperReturn(frame) ==
    IF frame.worker # "finished" THEN Raised(TimeoutError(llm.timeout))
    ELSE IF frame.exception # NoError THEN Raised(frame.exception)
    ELSE Success(frame.result)

\* the same, as the gave field of the frame
Gave(frame) ==
    IF frame.worker # "finished" THEN "TimeoutError"
    ELSE IF frame.exception # NoError THEN "exception"
    ELSE "result"

\* lines 38-47 of the wrapper around _generate: the thread has ended
\* before the deadline
GenerateJoinReturns ==
    /\ gen.call = "joined"
    /\ gen.worker = "finished"
    /\ clock' = clock
    /\ gen' = [gen EXCEPT !.call = "over", !.gave = Gave(gen)]
    /\ GenerateCallerReceives(WrapperReturn(gen))
    /\ UNCHANGED << llm, entry, invocations, genCalls, succeeded,
                    afterSuccess, onlyRetryable, slowReply >>

\* line 38 of the wrapper around _generate: join gives up at the deadline
\* while the thread is still running
GenerateJoinTimesOut ==
    /\ gen.call = "joined"
    /\ gen.worker # "finished"
    /\ IsNext(gen.deadline)
    /\ clock' = Max(clock, gen.deadline)
    /\ gen' = [gen EXCEPT !.call = "expired", !.expired = TRUE]
    /\ UNCHANGED << llm, entry, client, inv, invocations, genCalls,
                    succeeded, afterSuccess, onlyRetryable, slowReply, fatal >>

\* lines 40-47 of the wrapper around _generate, after join gave up: the
\* thread is read with is_alive(); it is left running if it is alive
GenerateIsAlive ==
    /\ gen.call = "expired"
    /\ clock' = clock
    /\ gen' = [gen EXCEPT !.call = "over", !.gave = Gave(gen)]
    /\ GenerateCallerReceives(WrapperReturn(gen))
    /\ UNCHANGED << llm, entry, invocations, genCalls, succeeded,
                    afterSuccess, onlyRetryable, slowReply >>

\* lines 165-166, then 145-148 with the next attempt: super().invoke calls
\* the decorated _generate again
InvokeSleepReturns ==
    /\ inv.worker = "sleep"
    /\ IsNext(inv.at)
    /\ clock' = Max(clock, inv.at)
    /\ inv' = [inv EXCEPT !.worker = "super_invoke",
                          !.attempt = inv.attempt + 1]
    /\ \E reply \in BackendReplies :
         /\ gen' = StartGenerateCall(reply, clock')
         /\ Invoked(reply)
    /\ genCalls' = genCalls + 1
    /\ UNCHANGED << llm, entry, client, succeeded >>

\* lines 38-47 of the wrapper around invoke: the thread has ended before
\* the deadline
InvokeJoinReturns ==
    /\ inv.call = "joined"
    /\ inv.worker = "finished"
    /\ inv' = [inv EXCEPT !.call = "over", !.gave = Gave(inv)]
    /\ clock' = clock
    /\ client' = [pc |-> "done", outcome |-> WrapperReturn(inv),
                  at |-> clock', made |-> invocations]
    /\ UNCHANGED << llm, entry, gen, invocations, genCalls, succeeded,
                    afterSuccess, onlyRetryable, slowReply, fatal >>

\* line 38 of the wrapper around invoke: join gives up at the deadline
InvokeJoinTimesOut ==
    /\ inv.call = "joined"
    /\ inv.worker # "finished"
    /\ IsNext(inv.deadline)
    /\ clock' = Max(clock, inv.deadline)
    /\ inv' = [inv EXCEPT !.call = "expired", !.expired = TRUE]
    /\ UNCHANGED << llm, entry, client, gen, invocations, genCalls,
                    succeeded, afterSuccess, onlyRetryable, slowReply, fatal >>

\* lines 40-47 of the wrapper around invoke, after join gave up
InvokeIsAlive ==
    /\ inv.call = "expired"
    /\ clock' = clock
    /\ inv' = [inv EXCEPT !.call = "over", !.gave = Gave(inv)]
    /\ client' = [pc |-> "done", outcome |-> WrapperReturn(inv),
                  at |-> clock', made |-> invocations]
    /\ UNCHANGED << llm, entry, gen, invocations, genCalls, succeeded,
                    afterSuccess, onlyRetryable, slowReply, fatal >>

\* the result cell as one cell that every call of the method shares
AbandonedStoresShared(value) ==
    /\ old' = [old EXCEPT !.worker = "finished"]
    /\ gen' = [gen EXCEPT !.result = value]

\* lines 29-33 in a thread whose wrapper has raised TimeoutError: target
\* stores the value in the result cell of the call that started the thread
AbandonedStores(value) ==
    /\ old' = [old EXCEPT !.worker = "finished", !.result = value]
    /\ UNCHANGED gen

\* the client calls the decorated _generate again after a call that timed
\* out and left its thread running: lines 25-37 make new cells and a new
\* thread, and nothing stops the earlier thread
ClientCallsAgain ==
    /\ entry = "_generate"
    /\ client.pc = "done"
    /\ gen.call = "over"
    /\ gen.worker # "finished"
    /\ old = NoFrame
    /\ old' = gen
    /\ client' = [client EXCEPT !.pc = "joined"]
    /\ \E reply \in BackendReplies :
         /\ gen' = StartGenerateCall(reply, clock)
         /\ Invoked(reply)
    /\ genCalls' = genCalls + 1
    /\ UNCHANGED << llm, entry, clock, inv, succeeded >>

\* lines 107-133 in the abandoned thread: super()._generate returns or
\* raises
AbandonedBackendReturns ==
    /\ old.worker = "backend"
    /\ ~ old.pending.hangs
    /\ IsNext(old.at)
    /\ clock' = Max(clock, old.at)
    /\ IF old.pending.ok
       THEN /\ AbandonedStores([call |-> genCalls - 1, attempt |-> old.attempt])
            /\ UNCHANGED fatal
       ELSE /\ \E j \in JitterPercents :
                 LET d == RetryDecision(llm, old.attempt, old.pending.msg, j)
                 IN IF d.retry
                    THEN /\ old' = [old EXCEPT
                                      !.worker = "sleep",
                                      !.at = clock' + d.delay,
                                      !.slept = Slept(old.attempt,
                                                      old.pending.msg, j, d,
                                                      old.slept)]
                         /\ fatal' = AfterFatalSleep
                    ELSE /\ old' = [old EXCEPT
                                      !.worker = "finished",
                                      !.exception =
                                          LoopFailure(old.pending, old.attempt,
                                                      llm.max_retries)]
                         /\ fatal' =
                              IF _is_retryable_error(old.pending.msg)
                              THEN fatal
                              ELSE [fatal EXCEPT !.seen = TRUE]
            /\ UNCHANGED gen
    /\ UNCHANGED << llm, entry, client, inv, invocations, genCalls,
                    succeeded, afterSuccess, onlyRetryable, slowReply >>

\* lines 129-130, then 99-107 in the abandoned thread
AbandonedSleepReturns ==
    /\ old.worker = "sleep"
    /\ IsNext(old.at)
    /\ clock' = Max(clock, old.at)
    /\ \E reply \in BackendReplies :
         /\ old' = [old EXCEPT !.worker = "backend",
                               !.attempt = old.attempt + 1,
                               !.pending = reply,
                               !.at = clock' + reply.dur]
         /\ Invoked(reply)
    /\ UNCHANGED << llm, entry, client, inv, gen, genCalls, succeeded >>

(***************************************************************************)
(* Specifications.  Spec runs create_crewai_setup for every attempt cap;   *)
(* CallSpec runs one call of a decorated method of RobustGeminiLLM for     *)
(* every configuration.                                                    *)
(***************************************************************************)
Init ==
    /\ max_attempts \in 0..MaxAttemptsCap
    /\ OrchStart
    /\ llm = ConfiguredLLM
    /\ entry = "invoke"
    /\ CallStart

Next ==
    \/ LoopEnds /\ UNCHANGED callVars
    \/ AllStrategiesExhausted /\ UNCHANGED callVars
    \/ StartRun /\ UNCHANGED callVars
    \/ TaskRuns /\ UNCHANGED callVars
    \/ WorkerFinishes /\ UNCHANGED callVars
    \/ FutureResultReturns /\ UNCHANGED callVars
    \/ FutureResultTimesOut /\ UNCHANGED callVars
    \/ ExecutorExit /\ UNCHANGED callVars
    \/ ExceptTimeoutError /\ UNCHANGED callVars
    \/ ExceptOverloaded /\ UNCHANGED callVars
    \/ ExceptQuota /\ UNCHANGED callVars
    \/ ExceptUnexpected /\ UNCHANGED callVars
    \/ SleepReturns /\ UNCHANGED callVars

Spec == Init /\ [][Next]_vars

CallInit ==
    /\ max_attempts = 3
    /\ OrchStart
    /\ llm \in LLMConfigs
    /\ entry \in {"invoke", "_generate"}
    /\ CallStart

CallNext ==
    \/ ClientCalls /\ UNCHANGED << orchVars, old >>
    \/ BackendReturns /\ UNCHANGED << orchVars, old >>
    \/ GenerateSleepReturns /\ UNCHANGED << orchVars, old >>
    \/ GenerateJoinReturns /\ UNCHANGED << orchVars, old >>
    \/ GenerateJoinTimesOut /\ UNCHANGED << orchVars, old >>
    \/ GenerateIsAlive /\ UNCHANGED << orchVars, old >>
    \/ InvokeSleepReturns /\ UNCHANGED << orchVars, old >>
    \/ InvokeJoinReturns /\ UNCHANGED << orchVars, old >>
    \/ InvokeJoinTimesOut /\ UNCHANGED << orchVars, old >>
    \/ InvokeIsAlive /\ UNCHANGED << orchVars, old >>

CallSpec == CallInit /\ [][CallNext]_vars

\* the program as a whole: a behaviour is a run of create_crewai_setup or
\* a call of a decorated method; the layer that has started keeps running
\* and the other one stays in its initial state
ProgramInit == Init \/ CallInit

ProgramNext ==
    \/ client.pc = "start" /\ Next
    \/ OrchStart /\ CallNext

ProgramSpec == ProgramInit /\ [][ProgramNext]_vars

\* a RobustGeminiLLM whose _generate is called and, after a call that
\* timed out, called again while the earlier thread still runs
AgainInit ==
    /\ max_attempts = 3
    /\ OrchStart
    /\ llm \in [max_retries : 0..MaxRetries, base_delay : BaseDelays,
                timeout : {180}]
    /\ entry = "_generate"
    /\ CallStart

AgainNext ==
    \/ ClientCalls /\ UNCHANGED << orchVars, old >>
    \/ BackendReturns /\ UNCHANGED << orchVars, old >>
    \/ GenerateSleepReturns /\ UNCHANGED << orchVars, old >>
    \/ GenerateJoinReturns /\ UNCHANGED << orchVars, old >>
    \/ GenerateJoinTimesOut /\ UNCHANGED << orchVars, old >>
    \/ GenerateIsAlive /\ UNCHANGED << orchVars, old >>
    \/ ClientCallsAgain /\ UNCHANGED orchVars
    \/ AbandonedBackendReturns /\ UNCHANGED orchVars
    \/ AbandonedSleepReturns /\ UNCHANGED orchVars

AgainSpec == AgainInit /\ [][AgainNext]_vars

(***************************************************************************)
(* Properties of the orchestrator (under Spec)                             *)
(***************************************************************************)
Range(seq) == { seq[i] : i \in 1..Len(seq) }

AllTimedOut == \A i \in 1..Len(ends) : ends[i] = "timeout"

\* C1: a bounded wrapper hands the TimeoutError of an expired deadline to
\* its caller at the moment the deadline expires, without waiting for the
\* worker: when create_crewai_setup (or the client of a decorated method)
\* holds that TimeoutError, the clock still reads the deadline.
C1_TimeoutAtDeadline ==
    /\ (pc = "except" /\ exc.origin = "deadline") => now = deadline
    /\ (client.pc = "done" /\ client.outcome.error.origin = "deadline")
          => client.at = (IF entry = "invoke" THEN inv.deadline
                          ELSE gen.deadline)

\* C2: create_crewai_setup never hangs: in every state it has either
\* returned or can take a further step, whatever crew.kickoff() does, and
\* it has started at most max_attempts pipeline runs.
C2_NeverHangs ==
    /\ pc = "done" \/ ENABLED Next
    /\ Len(runs) <= max_attempts

\* C3: every failed run escalates: at the head of the loop the ladder has
\* been advanced once per failed run, and no strategy is run twice.
C3_EveryFailureEscalates ==
    /\ pc = "loop" => current_strategy = Len(ends)
    /\ \A i, j \in 1..Len(runs) : i < j => runs[i] # runs[j]

\* C4: with an attempt cap of 3 or more, when every run timed out the
\* orchestrator returns Exhausted after exactly the three runs Full, Quick,
\* Emergency, in that order.
C4_ThreeTimeoutsExhaust ==
    (pc = "done" /\ max_attempts >= 3 /\ AllTimedOut)
        => /\ outcome.kind = "Exhausted"
           /\ runs = << "full", "quick", "emergency" >>
           /\ Len(ends) = 3

C4_Witness ==
    /\ pc = "done"
    /\ max_attempts > 3
    /\ Len(ends) = 3
    /\ AllTimedOut
    /\ lastFailure.origin = "deadline"
    /\ outcome.kind = "Exhausted"

\* C5: when the Full run times out and the run after it succeeds, that run
\* is the Quick run, the orchestrator returns Completed with its output,
\* exactly one TimeoutError occurred, and Emergency was never run.
C5_QuickSucceedsAfterFullTimeout ==
    (pc = "done" /\ Len(ends) >= 2 /\ ends[1] = "timeout" /\ ends[2] = "ok")
        => /\ runs = << "full", "quick" >>
           /\ outcome = Completed([tasks |-> "quick", run |-> 2])
           /\ Cardinality({ i \in 1..Len(ends) : ends[i] = "timeout" }) = 1
           /\ "emergency" \notin Range(runs)

C5_Witness ==
    /\ pc = "done"
    /\ ends = << "timeout", "ok" >>
    /\ outcome.kind = "Completed"
    /\ lastFailure.origin = "deadline"

\* the wait the specification gives for a cause and a 1-based run number
ExpectedWait(w) ==
    IF w.type = "TimeoutError" THEN 0
    ELSE IF w.msg \cap {"overloaded", "503"} # {} THEN w.number * 60
    ELSE IF w.msg \cap {"quota", "rate limit", "429"} # {} THEN w.number * 90
    ELSE 0

\* C6: the wait before the next run is set by the cause of the failed run
\* and its 1-based number n: n*60 for a message with 'overloaded' or '503',
\* n*90 for one with 'quota', 'rate limit' or '429', and 0 for any other
\* cause, a TimeoutError included; the sleep lasts exactly that long.
\* (A message of both groups is the subject of C21.)
C6_WaitByCause ==
    (/\ lastWait.number > 0
     /\ ~ (/\ lastWait.msg \cap {"overloaded", "503"} # {}
           /\ lastWait.msg \cap {"quota", "rate limit", "429"} # {}))
        => /\ lastWait.seconds = ExpectedWait(lastWait)
           /\ pc = "sleep" => wakeAt = now + ExpectedWait(lastWait)
           /\ (pc = "loop" /\ lastWait.number = Len(runs))
                 => now = wakeAt \/ lastWait.seconds = 0

C6_Witness ==
    /\ pc = "loop"
    /\ lastWait.number = 2
    /\ lastWait.msg = {"503"}
    /\ lastWait.seconds = 120
    /\ now = wakeAt

\* C7: the number of pipeline runs started never exceeds max_attempts, and
\* when the run number max_attempts fails the outcome is Exhausted, also
\* with strategies left untried.
C7_AttemptCap ==
    /\ Len(runs) <= max_attempts
    /\ (pc = "done" /\ Len(ends) = max_attempts /\ max_attempts > 0
          /\ ends[Len(ends)] # "ok")
          => outcome.kind = "Exhausted"

C7_Witness ==
    /\ pc = "done"
    /\ max_attempts > 0
    /\ Len(ends) = max_attempts
    /\ ends[Len(ends)] # "ok"
    /\ outcome.kind = "Exhausted"
    /\ get_current_strategy(current_strategy + 1) # None

(***************************************************************************)
(* Properties of one call of a decorated method (under CallSpec)           *)
(***************************************************************************)
\* C8: one call with max_retries = n causes at most n+1 invocations of the
\* remote backend, those of nested _generate calls and of abandoned workers
\* included, and no attempt index exceeds n.
C8_AtMostNPlusOneInvocations ==
    /\ invocations <= llm.max_retries + 1
    /\ gen.attempt <= llm.max_retries
    /\ inv.attempt <= llm.max_retries

\* C9: when every invocation fails at once with a retryable message, the
\* caller of _generate gets its Failure only after n+1 invocations, and
\* with the configured values that Failure is the one the loop raises
\* after its last attempt.
C9_FailureOnlyAfterAllAttempts ==
    (/\ entry = "_generate"
     /\ client.pc = "done"
     /\ client.outcome.kind = "Failure"
     /\ onlyRetryable
     /\ ~ slowReply)
        => /\ client.made = llm.max_retries + 1
           /\ llm = ConfiguredLLM
                 => /\ client.outcome.error.origin = "loop"
                    /\ client.outcome.error.made = llm.max_retries + 1

\* C10: when an invocation succeeds, each invocation having answered
\* within the deadline, the caller gets Success with that invocation's
\* value, and no invocation is started after the successful one.
C10_SuccessIsReturned ==
    /\ (succeeded # NoValue /\ ~ slowReply /\ client.pc = "done")
          => client.outcome = Success(succeeded)
    /\ afterSuccess = 0

\* the two retry loops of a call
Loops == { gen, inv }

\* the sleeps of this state that follow an earlier sleep of the same call,
\* after the same failure message and with the same jitter
SleepPairs ==
    { f.slept : f \in { g \in Loops :
          /\ g.slept # NoSleep
          /\ g.slept.attempt = g.slept.before.attempt + 1
          /\ g.slept.before.jitter = g.slept.jitter
          /\ g.slept.before.msg = g.slept.msg } }

\* C11: a call whose failure matches no retryable indicator is never
\* retried: once a Fatal failure has been raised no further invocation of
\* the backend is made, no delay is slept, and the call ends in Failure.
C11_FatalNeverRetried ==
    fatal.seen =>
        /\ fatal.invocations = 0
        /\ fatal.sleeps = 0
        /\ client.pc = "done" => client.outcome.kind = "Failure"

\* C12 as stated: for every retryable kind, Overloaded included, the delay
\* slept after attempt a+1 is strictly greater than the one slept after
\* attempt a, same kind and same jitter.
C12_DelayStrictlyGrows ==
    \A p \in SleepPairs : p.delay > p.before.delay

\* C12, amended: the value of the backoff formula grows strictly with the
\* attempt index for every retryable kind; the delay slept grows strictly
\* for every kind but Overloaded, whose delay is max(formula, 60): it never
\* shrinks and stays at 60 while the formula's value is below 60.
C12_DelayGrowsAboveFloor ==
    \A p \in SleepPairs :
        /\ p.computed > p.before.computed
        /\ p.delay >= p.before.delay
        /\ ~ is_overloaded(p.msg) => p.delay > p.before.delay
        /\ is_overloaded(p.msg) => p.delay = Max(p.computed, 60)

C12_Witness ==
    \E p \in SleepPairs :
        /\ is_overloaded(p.msg)
        /\ p.delay = 60
        /\ p.before.delay = 60

\* C13: jitter only ever lengthens the delay: the value of the backoff
\* computation is strictly greater than base * 2^a and at most
\* 1.3 * base * 2^a, truncation included.
C13_JitterLengthens ==
    \A f \in Loops :
        f.slept # NoSleep =>
            /\ f.slept.computed > llm.base_delay * Pow2(f.slept.attempt)
            /\ 10 * f.slept.computed
                   <= 13 * llm.base_delay * Pow2(f.slept.attempt)

\* C14: the floor of 60 applies to Overloaded and only to Overloaded, in
\* _generate and in invoke alike: the delay slept after a failure whose
\* message contains 'overloaded' or '503' is at least 60, the delay slept
\* after any other retryable failure is the value of the jittered formula.
C14_FloorOnlyForOverloaded ==
    \A f \in Loops :
        f.slept # NoSleep =>
            /\ f.slept.computed =
                   _calculate_backoff_delay(llm.base_delay, f.slept.attempt,
                                            f.slept.jitter)
            /\ is_overloaded(f.slept.msg) =>
                   f.slept.delay >= 60 /\ f.slept.delay >= f.slept.computed
            /\ ~ is_overloaded(f.slept.msg) =>
                   f.slept.delay = f.slept.computed

\* invoke slept the floor after an overloaded failure, and _generate, called
\* again, slept the formula's value after another retryable failure
C14_Witness ==
    /\ is_overloaded(inv.slept.msg)
    /\ inv.slept.computed < 60
    /\ inv.slept.delay = 60
    /\ gen.slept # NoSleep
    /\ ~ is_overloaded(gen.slept.msg)
    /\ gen.slept.delay < 60

\* C17: a result produced after the deadline is discarded: once join has
\* given up without a result, the wrapper raises TimeoutError and never
\* gives the value or the exception of its thread.
C17_LateResultDiscarded ==
    \A f \in Loops :
        (f.call = "over" /\ f.expired) => f.gave = "TimeoutError"

\* C20: a deadline expiry is retryable: when the wrapper of _generate
\* raises TimeoutError and the loop of invoke has attempts left, the loop
\* sleeps and calls again.
C20_DeadlineExpiryRetried ==
    ( /\ entry = "invoke"
      /\ gen.call = "over"
      /\ gen.gave = "TimeoutError"
      /\ inv.attempt < llm.max_retries )
        => inv.worker = "sleep"

(***************************************************************************)
(* Properties of the pipeline and of the ladder (under Spec)               *)
(***************************************************************************)
\* C15: in a run under the Emergency strategy no task step can reach the
\* remote search tool: neither the task nor the agent that executes it
\* carries the tool.
C15_EmergencyHasNoSearchTool ==
    (Len(runs) > 0 /\ runs[Len(runs)] = "emergency") =>
        \A i \in 1..Len(steps) :
            /\ "search_tool" \notin steps[i].tools
            /\ "search_tool" \notin steps[i].agent_tools

C18_RunsNeverOverlap ==
    pc \in {"loop", "except", "sleep", "done"} => worker.state # "running"

\* a run under the next strategy has started after a run that timed out
C18_Witness ==
    /\ Len(runs) = 2
    /\ Len(ends) = 1
    /\ ends[1] = "timeout"
    /\ pc = "future_result"
    /\ worker.state = "running"

\* position of a task set in the ladder
LadderIndex(tasks) ==
    CHOOSE i \in 1..Len(strategies) : strategies[i].tasks = tasks

\* C19: the ladder is read strictly forward: the index never decreases,
\* each advance raises it by exactly one, the strategies run follow the
\* ladder order, and past the last entry the current strategy is None.
C19_LadderForward ==
    /\ [](\A i \in 1..Len(runs) : \A j \in i..Len(runs) :
            LadderIndex(runs[i]) <= LadderIndex(runs[j]))
    /\ [](current_strategy >= Len(strategies)
            => get_current_strategy(current_strategy) = None)
    /\ [](current_strategy < Len(strategies)
            => get_current_strategy(current_strategy)
                   = strategies[current_strategy + 1])
    /\ [][ /\ current_strategy' >= current_strategy
           /\ current_strategy' <= current_strategy + 1
           /\ (pc = "except" /\ pc' = "loop")
                  => current_strategy' = current_strategy + 1 ]_vars

\* the ladder was advanced past its last entry and read again
C19_Witness ==
    /\ current_strategy = Len(strategies)
    /\ pc = "done"
    /\ outcome = Exhausted("All strategies exhausted")

(***************************************************************************)
(* Classification, reporting and timing                                    *)
(***************************************************************************)
\* C21: the quota category has priority over the server-error category: a
\* failure whose message matches both a quota indicator and a server-error
\* indicator is treated as quota at the orchestrator (wait of attempt
\* number * 90) and at the call level (no floor of 60).
C21_QuotaBeforeServerError ==
    /\ (lastWait.type = "Exception" /\ is_quota(lastWait.msg)
            /\ is_overloaded(lastWait.msg))
           => lastWait.seconds = lastWait.number * 90
    /\ \A f \in Loops :
           (f.slept # NoSleep /\ is_quota(f.slept.msg)
               /\ is_overloaded(f.slept.msg))
              => f.slept.delay = f.slept.computed

\* C22: the attempt count that the terminal failure of a loop reports
\* equals the number of attempts the loop has made.
C22_ReportedAttemptsAreMade ==
    \A f \in Loops :
        f.exception.origin = "loop" => f.exception.said = f.exception.made

\* C23: the deadline bounds the whole retry loop as the caller sees it:
\* the client, who enters at time 0, has its outcome no later than the
\* timeout, and no caller is still waiting in a wrapper past its deadline.
C23_DeadlineBoundsCall ==
    /\ client.pc = "done" => client.at <= llm.timeout
    /\ \A f \in Loops :
           f.call \in {"joined", "expired"} => clock <= f.deadline

\* the deadline cut a loop that had failed, slept and invoked again
C23_Witness ==
    /\ client.pc = "done"
    /\ client.at = llm.timeout
    /\ client.outcome.error.origin = "deadline"
    /\ client.made >= 2
    /\ gen.slept # NoSleep

\* C24: no wait without a further attempt.  While create_crewai_setup is
\* in time.sleep another attempt is permitted and has a strategy, and when
\* it has returned every sleep it made was followed by a run; while a retry
\* loop is in time.sleep the failed attempt was not the last one and its
\* error was retryable, and when the loop has ended every sleep it made
\* was followed by a later attempt.
C24_NoWaitWithoutAttempt ==
    /\ pc = "sleep"
          => /\ in_range(attempt + 1, max_attempts)
             /\ get_current_strategy(current_strategy) # None
             /\ lastWait.number = Len(runs)
    /\ (pc = "done" /\ lastWait.seconds > 0) => lastWait.number < Len(runs)
    /\ \A f \in Loops :
          /\ f.worker = "sleep"
                => /\ f.slept.attempt = f.attempt
                   /\ f.attempt < llm.max_retries
                   /\ _is_retryable_error(f.slept.msg)
          /\ (f.worker = "finished" /\ f.slept # NoSleep)
                => f.slept.attempt < f.attempt

\* create_crewai_setup slept after a failed run, ran again and gave up
\* after the failure of its last permitted attempt, without a sleep
C24_Witness ==
    /\ pc = "done"
    /\ outcome.kind = "Exhausted"
    /\ lastWait.seconds > 0
    /\ lastFailure.number = max_attempts
    /\ is_overloaded(lastFailure.msg) \/ is_quota(lastFailure.msg)
    /\ wakeAt > 0
    /\ Len(runs) = lastWait.number + 1

(***************************************************************************)
(* A call after a call that timed out (under AgainSpec)                    *)
(***************************************************************************)
\* C25: an abandoned worker cannot affect a later call: the cells of a
\* bounded call hold only what that call's own worker stored, the cells of
\* the abandoned call hold only what the abandoned worker stored, and what
\* the caller receives is the content of its own call's cells (or the
\* TimeoutError of its own deadline).
C25_OwnCellsOnly ==
    /\ gen.result # NoValue => gen.result.call = genCalls
    /\ old.result # NoValue => old.result.call = genCalls - 1
    /\ client.pc = "done"
          => CASE gen.gave = "result"
                    -> /\ client.outcome = Success(gen.result)
                       /\ client.outcome.value.call = genCalls
               [] gen.gave = "exception"
                    -> client.outcome = Raised(gen.exception)
               [] OTHER
                    -> client.outcome = Raised(TimeoutError(llm.timeout))

\* the second call returned the value of its own second attempt after the
\* thread abandoned by the first call had stored a value of its own
C25_Witness ==
    /\ genCalls = 2
    /\ client.pc = "done"
    /\ client.outcome.kind = "Success"
    /\ client.outcome.value = [call |-> 2, attempt |-> 1]
    /\ old.expired
    /\ old.worker = "finished"
    /\ old.result.call = 1
    /\ old.at < client.at

====
